---- MODULE Spec2Model ----
(***************************************************************************)
(* A model of the ragbot101 service: the text chunker and the ingestion    *)
(* pipeline (app/services/ingestion.py, app/api/routes/documents.py), the  *)
(* query pipeline (app/services/query_service.py, vector_store.py) and the *)
(* generation fallback chain (app/services/llm_service.py).                *)
(*                                                                         *)
(* Text is a sequence of one-character strings.  Indexes returned by the   *)
(* string helpers follow Python (0-based, -1 for "not found").             *)
(***************************************************************************)
EXTENDS Integers, Sequences, FiniteSets, TLC

VARIABLES
    ck,     \* the chunker called as a function: its arguments and result
    store,  \* the vector index: the set of stored vectors
    db,     \* the relational store: the committed document records
    up,     \* the upload requests, by request id
    qr      \* the query request

vars == <<ck, store, db, up, qr>>

(***************************************************************************)
(* Python string helpers                                                   *)
(***************************************************************************)

\* str.isspace() of one character
Whitespace == {" ", "\n", "\r", "\t"}

\* the characters texts are built from
Alphabet == {"a", " ", ".", "\n"}

\* all texts of length 0..n over the characters cs
RECURSIVE TextsUpTo(_, _)
TextsUpTo(cs, n) ==
    IF n = 0 THEN {<<>>}
    ELSE LET shorter == TextsUpTo(cs, n - 1)
         IN  shorter \cup {Append(t, c) : t \in {s \in shorter : Len(s) = n - 1}, c \in cs}

\* s[i:] for a 0-based i >= 0
From(s, i) == SubSeq(s, i + 1, Len(s))

\* s.find(sub): the 0-based index of the first occurrence at or after i, or -1
RECURSIVE find_from(_, _, _)
find_from(s, sub, i) ==
    IF i + Len(sub) > Len(s) THEN -1
    ELSE IF SubSeq(s, i + 1, i + Len(sub)) = sub THEN i
    ELSE find_from(s, sub, i + 1)

find(s, sub) == find_from(s, sub, 0)

\* s.split(sep) for a non-empty sep
RECURSIVE split(_, _)
split(s, sep) ==
    LET i == find(s, sep)
    IN  IF i = -1 THEN <<s>>
        ELSE <<SubSeq(s, 1, i)>> \o split(From(s, i + Len(sep)), sep)

\* s.lstrip(), s.rstrip(), s.strip()
RECURSIVE lstrip(_)
lstrip(s) == IF s # <<>> /\ Head(s) \in Whitespace THEN lstrip(Tail(s)) ELSE s

RECURSIVE rstrip(_)
rstrip(s) ==
    IF s # <<>> /\ s[Len(s)] \in Whitespace THEN rstrip(SubSeq(s, 1, Len(s) - 1)) ELSE s

strip(s) == rstrip(lstrip(s))

\* s.replace(a, b) for single characters a, b
replace_char(s, a, b) == [i \in 1..Len(s) |-> IF s[i] = a THEN b ELSE s[i]]

\* s[-n:] for n > 0
last_chars(s, n) == IF n >= Len(s) THEN s ELSE SubSeq(s, Len(s) - n + 1, Len(s))

\* s[:n] for n >= 0
first_chars(s, n) == IF n >= Len(s) THEN s ELSE SubSeq(s, 1, n)

(***************************************************************************)
(* IngestionService._chunk_text                                            *)
(***************************************************************************)

\* the merge loop of split_text (lines 152-166): splits[i..] are still to be
\* added, good_splits and current_split are the loop's variables
RECURSIVE merge_splits(_, _, _, _, _, _)
merge_splits(splits, i, separator, good_splits, current_split, target_size) ==
    IF i > Len(splits)
    THEN IF current_split # <<>> THEN Append(good_splits, current_split) ELSE good_splits
    ELSE LET to_add == IF separator # <<>> THEN splits[i] \o separator ELSE splits[i]
         IN  IF Len(current_split) + Len(to_add) <= target_size
             THEN merge_splits(splits, i + 1, separator, good_splits,
                               current_split \o to_add, target_size)
             ELSE merge_splits(splits, i + 1, separator,
                               IF current_split # <<>>
                               THEN Append(good_splits, current_split)
                               ELSE good_splits,
                               to_add, target_size)

\* split_text: only separators[0] is used; new_separators is never read and
\* the function does not call itself
split_text(text, separators, target_size) ==
    LET separator == Head(separators)
        splits == IF separator # <<>>
                  THEN split(text, separator)
                  ELSE [i \in 1..Len(text) |-> <<text[i]>>]
    IN  merge_splits(splits, 1, separator, <<>>, <<>>, target_size)

\* the separator priority handed to split_text at line 191 of _chunk_text
ParagraphSeparators == << <<".", " ">>, <<" ">> >>

\* the paragraph loop (lines 175-198): paragraphs[i..] are still to be read;
\* the result is the loop's final [chunks, current_chunk]
RECURSIVE paragraph_loop(_, _, _, _, _)
paragraph_loop(paragraphs, i, chunks, current_chunk, target_size) ==
    IF i > Len(paragraphs) THEN [chunks |-> chunks, current_chunk |-> current_chunk]
    ELSE LET para == strip(paragraphs[i])
         IN  IF para = <<>>
             THEN paragraph_loop(paragraphs, i + 1, chunks, current_chunk, target_size)
             ELSE IF Len(current_chunk) + Len(para) + 2 <= target_size
             THEN paragraph_loop(paragraphs, i + 1, chunks,
                                 IF current_chunk # <<>>
                                 THEN current_chunk \o <<"\n", "\n">> \o para
                                 ELSE para,
                                 target_size)
             ELSE LET saved == IF current_chunk # <<>>
                               THEN Append(chunks, current_chunk)
                               ELSE chunks
                  IN  IF Len(para) > target_size
                      THEN LET sub_chunks == split_text(para, ParagraphSeparators, target_size)
                           IN  paragraph_loop(paragraphs, i + 1,
                                   saved \o SubSeq(sub_chunks, 1, Len(sub_chunks) - 1),
                                   sub_chunks[Len(sub_chunks)], target_size)
                      ELSE paragraph_loop(paragraphs, i + 1, saved, para, target_size)

\* the chunks before overlap is added (lines 171-201)
pre_overlap_chunks(text, target_size) ==
    LET paragraphs == split(replace_char(text, "\r", "\n"), <<"\n", "\n">>)
        r == paragraph_loop(paragraphs, 1, <<>>, <<>>, target_size)
    IN  IF r.current_chunk # <<>> THEN Append(r.chunks, r.current_chunk) ELSE r.chunks

\* a slicing slip: the first instead of the last `overlap` characters of prev
overlap_text_from_start(prev, overlap) ==
    LET overlap_text == first_chars(prev, overlap)
        first_space == find(overlap_text, <<" ">>)
    IN  IF first_space # -1 THEN From(overlap_text, first_space + 1) ELSE overlap_text

\* lines 210-213: the text taken from the previous chunk
overlap_text_of(prev, overlap) ==
    LET overlap_text == last_chars(prev, overlap)
        first_space == find(overlap_text, <<" ">>)
    IN  IF first_space # -1 THEN From(overlap_text, first_space + 1) ELSE overlap_text

\* lines 205-216: prev is chunks[i-1], the chunk before overlap was added
add_overlap(chunks, overlap) ==
    [i \in 1..Len(chunks) |->
        IF i > 1
        THEN overlap_text_of(chunks[i - 1], overlap) \o <<" ">> \o chunks[i]
        ELSE chunks[i]]

_chunk_text(text, target_size, overlap) ==
    IF text = <<>> THEN <<>>
    ELSE LET chunks == pre_overlap_chunks(text, target_size)
         IN  IF overlap > 0 /\ Len(chunks) > 1 THEN add_overlap(chunks, overlap) ELSE chunks

(***************************************************************************)
(* IngestionService._clean_text and _extract_section_header                *)
(***************************************************************************)

Digits == {"0", "1", "2", "3", "4", "5", "6", "7", "8", "9"}
UpperCase == {"A", "B", "C"}
LowerCase == {"a", "b", "c", "k", "n", "o", "u", "w"}

\* re.sub(r'-\n', '', text)
RECURSIVE join_hyphenated(_)
join_hyphenated(s) ==
    IF s = <<>> THEN <<>>
    ELSE IF Len(s) >= 2 /\ s[1] = "-" /\ s[2] = "\n" THEN join_hyphenated(From(s, 2))
    ELSE <<s[1]>> \o join_hyphenated(Tail(s))

\* re.sub(r'\s+', ' ', text)
RECURSIVE collapse_whitespace(_)
collapse_whitespace(s) ==
    IF s = <<>> THEN <<>>
    ELSE IF s[1] \in Whitespace THEN <<" ">> \o collapse_whitespace(lstrip(s))
    ELSE <<s[1]>> \o collapse_whitespace(Tail(s))

\* re.sub(r'(\d+)\s+\.', r'\1.', text): whitespace between a digit and a
\* full stop is dropped
RECURSIVE clean_headers(_)
clean_headers(s) ==
    IF s = <<>> THEN <<>>
    ELSE LET rest == Tail(s)
             after == lstrip(rest)
         IN  IF /\ s[1] \in Digits
                /\ Len(after) < Len(rest)
                /\ after # <<>>
                /\ after[1] = "."
             THEN <<s[1]>> \o clean_headers(after)
             ELSE <<s[1]>> \o clean_headers(rest)

_clean_text(text) == strip(clean_headers(collapse_whitespace(join_hyphenated(text))))

\* line.isupper(): some cased character, and no lower-case one
isupper(line) ==
    /\ \E i \in 1..Len(line) : line[i] \in UpperCase
    /\ \A i \in 1..Len(line) : line[i] \notin LowerCase

\* line.lstrip('#')
RECURSIVE lstrip_hash(_)
lstrip_hash(s) == IF s # <<>> /\ Head(s) = "#" THEN lstrip_hash(Tail(s)) ELSE s

HeaderMaxLen == 100

\* the test of lines 85-89 on one stripped line: "header", "no", or
\* "IndexError" (line[0] of an empty line)
header_test(line) ==
    IF ~(Len(line) < HeaderMaxLen) THEN "no"
    ELSE IF line = <<>> THEN "IndexError"
    ELSE IF \/ line[1] \in Digits /\ \E i \in 1..Len(first_chars(line, 5)) : line[i] = "."
            \/ isupper(line) /\ Len(line) > 3
            \/ line[1] = "#"
    THEN "header" ELSE "no"

Unknown == <<"u", "n", "k", "n", "o", "w", "n">>
IndexError == <<"IndexError">>

\* _extract_section_header: the heading in the first two lines of the chunk,
\* Unknown when there is none, IndexError when the function raises it
_extract_section_header(text) ==
    LET lines == split(text, <<"\n">>)
        line1 == strip(lines[1])
        line2 == strip(lines[2])
    IN  IF header_test(line1) = "header" THEN strip(lstrip_hash(line1))
        ELSE IF header_test(line1) = "IndexError" THEN IndexError
        ELSE IF Len(lines) < 2 THEN Unknown
        ELSE IF header_test(line2) = "header" THEN strip(lstrip_hash(line2))
        ELSE IF header_test(line2) = "IndexError" THEN IndexError
        ELSE Unknown

(***************************************************************************)
(* The upload endpoint: upload_document and IngestionService.process_file  *)
(***************************************************************************)

\* the chunker harness when no call is being made
IdleCk == [pc |-> "idle", text |-> <<>>, target_size |-> 1, overlap |-> 0,
           chunks |-> <<>>, out |-> <<>>]

MaxUploads == 1
Uploads == 1..MaxUploads

\* _chunk_text's defaults target_size=800, overlap=200, scaled down together
\* with the sample texts
DefaultTargetSize == 8
DefaultOverlap == 2

Introduction == <<"I", "n", "t", "r", "o", "d", "u", "c", "t", "i", "o", "n">>

\* texts a file may hold, before normalisation
UploadTexts ==
    { <<>>,
      <<" ", "\n">>,
      <<"a", " ", "a", ".">>,
      <<"a", "a", "a", "a", ".", " ", "a", "a", "a", "a", ".", " ", "a", "a">>,
      <<"1", " ", ".", " ", "A", "\n", "\n", "a", "a", "a", "a", ".", " ", "a", "a", "a", "a">>,
      <<"#", "u", "n", "k", "n", "o", "w", "n">> }

ContentTypes == {"application/pdf", "text/plain", "application/octet-stream"}
DocxType == "application/vnd.openxmlformats-officedocument.wordprocessingml.document"
Extensions == {"pdf", "docx", "txt", "bin"}

\* an uploaded file: its content type, the extension of its name, whether
\* its bytes parse or decode, and the text they hold
Files == [content_type : ContentTypes, ext : Extensions, readable : BOOLEAN,
          text : UploadTexts]

Filename(file) == <<"f", ".", file.ext>>

\* the exceptions that are ValueError or a subclass of it (UnicodeDecodeError
\* is), caught by `except ValueError` in upload_document
ValueErrors == {"ValueError", "UnicodeDecodeError"}

\* _extract_text: [error, text]; error is "" when the text was extracted
_extract_text(file) ==
    IF file.content_type = "application/pdf" \/ file.ext = "pdf"
    THEN IF file.readable
         THEN [error |-> "", text |-> _clean_text(file.text \o <<"\n">>)]
         ELSE [error |-> "ParseError", text |-> <<>>]
    ELSE IF file.content_type = DocxType \/ file.ext = "docx"
    THEN IF file.readable
         THEN [error |-> "", text |-> _clean_text(file.text)]
         ELSE [error |-> "ParseError", text |-> <<>>]
    ELSE IF file.content_type = "text/plain" \/ file.ext = "txt"
    THEN IF file.readable
         THEN [error |-> "", text |-> _clean_text(file.text)]
         ELSE [error |-> "UnicodeDecodeError", text |-> <<>>]
    ELSE [error |-> "ValueError", text |-> <<>>]

None == [id |-> 0]

\* an upload request that has not arrived yet
IdleUp ==
    [pc |-> "idle", file |-> None, extracted |-> FALSE, text |-> <<>>,
     chunks |-> <<>>, doc |-> None, i |-> 0, current_section |-> Introduction,
     batch |-> <<>>, embed_calls |-> <<>>, insert_calls |-> 0,
     status |-> 0, error |-> "", rolled_back |-> FALSE]

\* the embedding the provider returns for a text
Embedding(text) == <<"embedding", text>>

\* the except clauses of upload_document: roll back, answer 400 for a
\* ValueError and 500 for any other exception
Failed(r, error) ==
    [r EXCEPT !.pc = "done", !.error = error, !.rolled_back = TRUE,
              !.status = IF error \in ValueErrors THEN 400 ELSE 500]

VectorsOf(u) == {v \in store : v.metadata.document_id = u}
Committed(u) == \E d \in db : d.id = u

\* process_file up to the flush: read, extract, chunk, create the record
ReceiveUpload(u, file, flush_ok) ==
    /\ up[u].pc = "idle"
    /\ LET ex == _extract_text(file)
           r == [up[u] EXCEPT !.file = file]
       IN  IF ex.error # ""
           THEN up' = [up EXCEPT ![u] = Failed(r, ex.error)]
           ELSE LET chunks == _chunk_text(ex.text, DefaultTargetSize, DefaultOverlap)
                    read == [r EXCEPT !.extracted = TRUE, !.text = ex.text,
                                      !.chunks = chunks]
                IN  IF ~flush_ok
                    THEN up' = [up EXCEPT ![u] = Failed(read, "DatabaseError")]
                    ELSE up' = [up EXCEPT ![u] =
                                 [read EXCEPT !.pc = "embedding",
                                              !.doc = [id |-> u,
                                                       filename |-> Filename(file),
                                                       content_type |-> file.content_type,
                                                       chunk_count |-> Len(chunks)]]]
    /\ UNCHANGED <<ck, store, db, qr>>

\* an embedding failure that is swallowed: the call is made again
EmbedChunkRetry(u, ok) ==
    /\ up[u].pc = "embedding"
    /\ up[u].i < Len(up[u].chunks)
    /\ LET r == up[u]
           chunk == r.chunks[r.i + 1]
           called == [r EXCEPT !.embed_calls = Append(@, r.i)]
       IN  up' = [up EXCEPT ![u] =
                    IF ~ok THEN called
                    ELSE [called EXCEPT
                            !.i = @ + 1,
                            !.batch = Append(@,
                                [id |-> <<r.doc.id, "_", r.i>>,
                                 embedding |-> Embedding(chunk),
                                 document |-> chunk,
                                 metadata |-> [document_id |-> r.doc.id,
                                               chunk_index |-> r.i,
                                               source |-> r.doc.filename,
                                               section |-> r.current_section,
                                               chunk_length |-> Len(chunk)]])]]
    /\ UNCHANGED <<ck, store, db, qr>>

\* one pass of the loop of process_file (lines 46-65) for chunk i
EmbedChunk(u, ok) ==
    /\ up[u].pc = "embedding"
    /\ up[u].i < Len(up[u].chunks)
    /\ LET r == up[u]
           chunk == r.chunks[r.i + 1]
           possible_header == _extract_section_header(chunk)
           current_section == IF possible_header # Unknown THEN possible_header
                              ELSE r.current_section
           called == [r EXCEPT !.embed_calls = Append(@, r.i),
                               !.current_section = current_section]
       IN  up' = [up EXCEPT ![u] =
                    IF possible_header = IndexError THEN Failed(r, "IndexError")
                    ELSE IF ~ok THEN Failed(called, "EmbeddingError")
                    ELSE [called EXCEPT
                            !.i = @ + 1,
                            !.batch = Append(@,
                                [id |-> <<r.doc.id, "_", r.i>>,
                                 embedding |-> Embedding(chunk),
                                 document |-> chunk,
                                 metadata |-> [document_id |-> r.doc.id,
                                               chunk_index |-> r.i,
                                               source |-> r.doc.filename,
                                               section |-> current_section,
                                               chunk_length |-> Len(chunk)]])]]
    /\ UNCHANGED <<ck, store, db, qr>>

\* an insert that loses the last item of the batch
add_documents_without_last(batch) ==
    store \cup {batch[k] : k \in {j \in 1..Len(batch) - 1 :
                                     \A v \in store : v.id # batch[j].id}}


\* ChromaVectorStore.add_documents: the batch is stored as a whole; an id the
\* collection already holds keeps its stored item
add_documents(batch) ==
    store \cup {batch[k] : k \in {j \in 1..Len(batch) :
                                     \A v \in store : v.id # batch[j].id}}

\* the insert made even when there is nothing to insert
StoreVectorsAlways(u, ok) ==
    /\ up[u].pc = "embedding"
    /\ up[u].i = Len(up[u].chunks)
    /\ LET called == [up[u] EXCEPT !.insert_calls = @ + 1]
       IN  IF ok
           THEN /\ store' = add_documents(up[u].batch)
                /\ up' = [up EXCEPT ![u] = [called EXCEPT !.pc = "commit"]]
           ELSE /\ store' = store
                /\ up' = [up EXCEPT ![u] = Failed(called, "IndexWriteError")]
    /\ UNCHANGED <<ck, db, qr>>

\* lines 67-75 of process_file: one add_documents call when there is a chunk
StoreVectors(u, ok) ==
    /\ up[u].pc = "embedding"
    /\ up[u].i = Len(up[u].chunks)
    /\ IF up[u].batch = <<>>
       THEN /\ ok
            /\ store' = store
            /\ up' = [up EXCEPT ![u].pc = "commit"]
       ELSE LET called == [up[u] EXCEPT !.insert_calls = @ + 1]
            IN  IF ok
                THEN /\ store' = add_documents(up[u].batch)
                     /\ up' = [up EXCEPT ![u] = [called EXCEPT !.pc = "commit"]]
                ELSE /\ store' = store
                     /\ up' = [up EXCEPT ![u] = Failed(called, "IndexWriteError")]
    /\ UNCHANGED <<ck, db, qr>>

\* upload_document after process_file returned: commit and answer 201
CommitUpload(u, ok) ==
    /\ up[u].pc = "commit"
    /\ IF ok
       THEN /\ db' = db \cup {up[u].doc}
            /\ up' = [up EXCEPT ![u].pc = "done", ![u].status = 201]
       ELSE /\ db' = db
            /\ up' = [up EXCEPT ![u] = Failed(up[u], "DatabaseError")]
    /\ UNCHANGED <<ck, store, qr>>

(***************************************************************************)
(* Similarity scores.  A number is a fraction <<numerator, denominator>>   *)
(* with a positive denominator, so that 1/(1+d) is exact.                  *)
(***************************************************************************)

Less(a, b) == a[1] * b[2] < b[1] * a[2]
LessEq(a, b) == a[1] * b[2] <= b[1] * a[2]
Zero == <<0, 1>>
One == <<1, 1>>

\* float('inf'), the distance used when the response holds none for an item
Inf == <<1, 0>>

\* the decimal places kept by round(similarity, 4)
RoundDigits == 4

\* round(x, ndigits) of a fraction x >= 0: the nearest multiple of
\* 10^-ndigits, a tie going to the even one
round(x, ndigits) ==
    LET scale == 10 ^ ndigits
        q == (x[1] * scale) \div x[2]
        r == (x[1] * scale) % x[2]
        up1 == 2 * r > x[2] \/ (2 * r = x[2] /\ q % 2 = 1)
    IN  <<IF up1 THEN q + 1 ELSE q, scale>>

\* line 56 of ChromaVectorStore.query: 1.0 - d
similarity_one_minus(distance) ==
    IF distance = Inf THEN Zero ELSE <<distance[2] - distance[1], distance[2]>>

\* the formula of ChromaVectorStore.query used where _retrieve_chunks computes
\* its own
similarity_as_in_vector_store(distance) == similarity_one_minus(distance)

\* line 132 of _retrieve_chunks: 1.0 / (1.0 + distance), 0.0 for inf
similarity_of(distance) ==
    IF distance # Inf THEN <<distance[2], distance[2] + distance[1]>> ELSE Zero

\* the metric the collection is created with
HnswSpace == "cosine"

(***************************************************************************)
(* LLMService.generate_answer: the candidate list                          *)
(***************************************************************************)

primary_model == "openai/gpt-3.5-turbo"

fallback_models ==
    << "meta-llama/llama-3.2-3b-instruct:free",
       "google/gemma-2-9b-it:free",
       "mistralai/mistral-7b-instruct:free",
       "huggingfaceh4/zephyr-7b-beta:free",
       "microsoft/phi-3.5-mini-instruct:free" >>

models_to_try == <<primary_model>> \o fallback_models

\* what the provider answers, or raises, for one model
Completion(model, prompt) == [model |-> model, prompt |-> prompt]
ProviderError(model) == <<"provider error", model>>
NoError == <<"no error", "">>
NoAnswer == <<"no answer">>

(***************************************************************************)
(* The vector index as the query pipeline sees it                          *)
(***************************************************************************)

\* n_results of _retrieve_chunks
NResults == 3

MaxStored == 3

\* vectors the persistent collection may hold when the service starts
SampleVector(k) ==
    [id |-> <<k, "_", 0>>,
     embedding |-> Embedding(<<"a", k>>),
     document |-> <<"a", k>>,
     metadata |-> [document_id |-> k, chunk_index |-> 0, source |-> <<"f", k>>,
                   section |-> Introduction, chunk_length |-> 2]]

SampleVectors == {SampleVector(k) : k \in 1..MaxStored}

\* cosine distances the index may report
Distances == {<<0, 1>>, <<1, 100000>>, <<1, 5>>, <<1, 1>>, <<3, 2>>, <<2, 1>>}

\* a value of the response dict: absent, or the outer list it holds
Absent == [present |-> FALSE, value |-> <<>>]
Present(outer) == [present |-> TRUE, value |-> outer]

Min(a, b) == IF a < b THEN a ELSE b

\* the nearest-first answers collection.query may give for n_results: the
\* stored items in some order, with distances that do not decrease
Hits(n_results) ==
    LET n == Min(n_results, Cardinality(store))
    IN  {h \in [1..n -> store \X Distances] :
            /\ \A i, j \in 1..n : i # j => h[i][1] # h[j][1]
            /\ \A i \in 1..n - 1 : LessEq(h[i][2], h[i + 1][2])}

\* the shapes of the response dict: all three lists, a key left out, or an
\* empty outer list of documents
Shapes == {"full", "no distances", "no metadatas", "no documents", "empty documents"}

RawResponse(hits, shape) ==
    [documents |-> IF shape = "no documents" THEN Absent
                   ELSE IF shape = "empty documents" THEN Present(<<>>)
                   ELSE Present(<<[i \in 1..Len(hits) |-> hits[i][1].document]>>),
     metadatas |-> IF shape = "no metadatas" THEN Absent
                   ELSE Present(<<[i \in 1..Len(hits) |-> hits[i][1].metadata]>>),
     distances |-> IF shape = "no distances" THEN Absent
                   ELSE Present(<<[i \in 1..Len(hits) |-> hits[i][2]]>>)]

\* dict.get(key, [[]])[0] of a value that is absent or a non-empty outer list
FirstOrEmpty(v) == IF v.present THEN v.value[1] ELSE <<>>

\* ChromaVectorStore.query: whether its fallback branch raises IndexError
\* (the [0] of an empty outer list of documents)
query_raises(raw) ==
    /\ ~(raw.distances.present /\ raw.distances.value # <<>>)
    /\ raw.documents.present
    /\ raw.documents.value = <<>>

\* ChromaVectorStore.query: the response with 'similarities' added
query(raw) ==
    [documents |-> raw.documents,
     metadatas |-> raw.metadatas,
     distances |-> raw.distances,
     similarities |->
        IF raw.distances.present /\ raw.distances.value # <<>>
        THEN <<[i \in 1..Len(raw.distances.value[1]) |->
                    similarity_one_minus(raw.distances.value[1][i])]>>
        ELSE <<[i \in 1..Len(FirstOrEmpty(raw.documents)) |-> Zero]>>]

(***************************************************************************)
(* QueryService                                                            *)
(***************************************************************************)

UnknownSource == <<"unknown">>

\* results and results.get('documents')
has_documents(results) == results.documents.present /\ results.documents.value # <<>>

\* the distance read for item i (1-based) at line 131
distance_at(results, i) ==
    LET distances == FirstOrEmpty(results.distances)
    IN  IF i <= Len(distances) THEN distances[i] ELSE Inf

\* an indexing slip: every chunk is given the source of the first item
source_at_first(results, i) ==
    LET metadatas == FirstOrEmpty(results.metadatas)
    IN  IF 1 <= Len(metadatas) THEN metadatas[1].source ELSE UnknownSource


source_at(results, i) ==
    LET metadatas == FirstOrEmpty(results.metadatas)
    IN  IF i <= Len(metadatas) THEN metadatas[i].source ELSE UnknownSource

\* _retrieve_chunks after the index answered: retrieved_chunks (with the
\* unrounded similarity of each kept beside it) and context_parts
_retrieve_chunks(results) ==
    LET documents == IF has_documents(results) THEN results.documents.value[1] ELSE <<>>
    IN  [retrieved_chunks |->
            [i \in 1..Len(documents) |->
                [text |-> documents[i],
                 source |-> source_at(results, i),
                 similarity_score |->
                     round(similarity_of(distance_at(results, i)), RoundDigits)]],
         similarity |->
            [i \in 1..Len(documents) |-> similarity_of(distance_at(results, i))],
         context_parts |->
            [i \in 1..Len(documents) |->
                <<"Source: ">> \o source_at(results, i)
                    \o <<"\nContent: ">> \o documents[i]]]

\* "\n\n".join(parts)
RECURSIVE join(_)
join(parts) ==
    IF parts = <<>> THEN <<>>
    ELSE IF Len(parts) = 1 THEN parts[1]
    ELSE parts[1] \o <<"\n\n">> \o join(Tail(parts))

_build_rag_prompt(context, question) ==
    <<"Answer the user question based on the following context. If the answer is not in the context, say you don't know.\n\nContext:\n">>
        \o context \o <<"\n\nQuestion: ">> \o question \o <<"\n\nAnswer:">>

CannedAnswer ==
    <<"I don't have enough information to answer this question. Please upload relevant documents first.">>

Questions == {<<"W", "h", "a", "t", " ", "i", "s", " ", "X", "?">>, <<"a">>}

NoResults ==
    [documents |-> Absent, metadatas |-> Absent, distances |-> Absent,
     similarities |-> <<>>]

IdleQr ==
    [pc |-> "idle", question |-> <<>>, embed_calls |-> 0, retrieved |-> FALSE,
     results |-> NoResults, retrieved_chunks |-> <<>>, similarity |-> <<>>,
     prompt |-> <<>>, idx |-> 0, gen_calls |-> <<>>, failures |-> <<>>,
     last_error |-> NoError, answer |-> NoAnswer, status |-> 0, error |-> NoError]

\* the except clause of query_rag: any exception is answered 500
QueryFailed(r, error) == [r EXCEPT !.pc = "done", !.status = 500, !.error = error]

\* query_rag and step 1 of process_query: embed the question
EmbedQuestion(question, ok) ==
    /\ qr.pc = "idle"
    /\ LET r == [qr EXCEPT !.question = question, !.embed_calls = @ + 1]
       IN  qr' = IF ok THEN [r EXCEPT !.pc = "retrieve"]
                 ELSE QueryFailed(r, <<"EmbeddingError", "">>)
    /\ UNCHANGED <<ck, store, db, up>>

\* steps 2 and 3 without the test of context_parts: the prompt is built and
\* generation starts whatever was retrieved
RetrieveChunksNoCheck(raw, ok) ==
    /\ qr.pc = "retrieve"
    /\ IF ~ok \/ query_raises(raw)
       THEN qr' = QueryFailed(qr, <<"IndexQueryError", "">>)
       ELSE LET results == query(raw)
                got == _retrieve_chunks(results)
            IN  qr' = [qr EXCEPT
                         !.retrieved = TRUE,
                         !.results = results,
                         !.retrieved_chunks = got.retrieved_chunks,
                         !.similarity = got.similarity,
                         !.pc = "generate",
                         !.prompt = _build_rag_prompt(join(got.context_parts),
                                                      qr.question)]
    /\ UNCHANGED <<ck, store, db, up>>

\* steps 2 and 3 of process_query: query the index, build the chunks, and
\* answer at once when nothing was retrieved; else build the prompt
RetrieveChunks(raw, ok) ==
    /\ qr.pc = "retrieve"
    /\ IF ~ok \/ query_raises(raw)
       THEN qr' = QueryFailed(qr, <<"IndexQueryError", "">>)
       ELSE LET results == query(raw)
                got == _retrieve_chunks(results)
                r == [qr EXCEPT !.retrieved = TRUE,
                                !.results = results,
                                !.similarity = got.similarity]
            IN  IF got.context_parts = <<>>
                THEN qr' = [r EXCEPT !.pc = "done", !.status = 200,
                                     !.answer = CannedAnswer,
                                     !.retrieved_chunks = <<>>]
                ELSE qr' = [r EXCEPT
                              !.pc = "generate",
                              !.retrieved_chunks = got.retrieved_chunks,
                              !.prompt = _build_rag_prompt(join(got.context_parts),
                                                           qr.question)]
    /\ UNCHANGED <<ck, store, db, up>>

\* a failed candidate is tried again instead of the next one
TryModelAgain(ok) ==
    /\ qr.pc = "generate"
    /\ qr.idx < Len(models_to_try)
    /\ LET model == models_to_try[qr.idx + 1]
           called == [qr EXCEPT !.gen_calls = Append(@, [idx |-> qr.idx, model |-> model])]
       IN  qr' = IF ok
                 THEN [called EXCEPT !.pc = "done", !.status = 200,
                                     !.answer = Completion(model, qr.prompt)]
                 ELSE [called EXCEPT
                         !.last_error = ProviderError(model),
                         !.failures = Append(@, [idx |-> qr.idx,
                                                 error |-> ProviderError(model)])]
    /\ UNCHANGED <<ck, store, db, up>>

\* last_error keeps the first failure instead of the latest
TryModelFirstError(ok) ==
    /\ qr.pc = "generate"
    /\ qr.idx < Len(models_to_try)
    /\ LET model == models_to_try[qr.idx + 1]
           called == [qr EXCEPT !.gen_calls = Append(@, [idx |-> qr.idx, model |-> model])]
       IN  qr' = IF ok
                 THEN [called EXCEPT !.pc = "done", !.status = 200,
                                     !.answer = Completion(model, qr.prompt)]
                 ELSE [called EXCEPT
                         !.idx = @ + 1,
                         !.last_error = IF @ = NoError THEN ProviderError(model) ELSE @,
                         !.failures = Append(@, [idx |-> qr.idx,
                                                 error |-> ProviderError(model)])]
    /\ UNCHANGED <<ck, store, db, up>>

\* one pass of the loop of generate_answer (lines 70-101): the call for
\* models_to_try[idx]; return on success, record the failure and go on
TryModel(ok) ==
    /\ qr.pc = "generate"
    /\ qr.idx < Len(models_to_try)
    /\ LET model == models_to_try[qr.idx + 1]
           called == [qr EXCEPT !.gen_calls = Append(@, [idx |-> qr.idx, model |-> model])]
       IN  qr' = IF ok
                 THEN [called EXCEPT !.pc = "done", !.status = 200,
                                     !.answer = Completion(model, qr.prompt)]
                 ELSE [called EXCEPT
                         !.idx = @ + 1,
                         !.last_error = ProviderError(model),
                         !.failures = Append(@, [idx |-> qr.idx,
                                                 error |-> ProviderError(model)])]
    /\ UNCHANGED <<ck, store, db, up>>

\* lines 103-105: the loop ended without a return
AllModelsFailed ==
    /\ qr.pc = "generate"
    /\ qr.idx = Len(models_to_try)
    /\ qr' = QueryFailed(qr, <<"All LLM models failed. Last error: ", qr.last_error>>)
    /\ UNCHANGED <<ck, store, db, up>>

(***************************************************************************)
(* The specifications: the upload endpoint, the query endpoint             *)
(***************************************************************************)

InitUpload ==
    /\ ck = IdleCk
    /\ store = {}
    /\ db = {}
    /\ up = [u \in Uploads |-> IdleUp]
    /\ qr = IdleQr

NextUpload ==
    \E u \in Uploads :
        \/ \E file \in Files, flush_ok \in BOOLEAN : ReceiveUpload(u, file, flush_ok)
        \/ \E ok \in BOOLEAN : EmbedChunk(u, ok)
        \/ \E ok \in BOOLEAN : StoreVectors(u, ok)
        \/ \E ok \in BOOLEAN : CommitUpload(u, ok)

SpecUpload == InitUpload /\ [][NextUpload]_vars

InitQuery ==
    /\ ck = IdleCk
    /\ store \in SUBSET SampleVectors
    /\ db = {}
    /\ up = [u \in Uploads |-> IdleUp]
    /\ qr = IdleQr

NextQuery ==
    \/ \E question \in Questions, ok \in BOOLEAN : EmbedQuestion(question, ok)
    \/ /\ qr.pc = "retrieve"
       /\ \E hits \in Hits(NResults), shape \in Shapes, ok \in BOOLEAN :
              RetrieveChunks(RawResponse(hits, shape), ok)
    \/ \E ok \in BOOLEAN : TryModel(ok)
    \/ AllModelsFailed

SpecQuery == InitQuery /\ [][NextQuery]_vars

(***************************************************************************)
(* The service: upload and query requests interleaved, over one index      *)
(***************************************************************************)

\* the text files uploaded while queries run
ServiceFiles == {f \in Files : f.content_type = "text/plain" /\ f.ext = "txt"}

\* the distance the index reports for every item while uploads run
ServiceDistance == <<1, 5>>

\* the answers collection.query may give from what the index holds now
ServiceHits(n_results) ==
    LET n == Min(n_results, Cardinality(store))
    IN  {h \in [1..n -> store \X {ServiceDistance}] :
            \A i, j \in 1..n : i # j => h[i][1] # h[j][1]}

InitService ==
    /\ ck = IdleCk
    /\ store = {}
    /\ db = {}
    /\ up = [u \in Uploads |-> IdleUp]
    /\ qr = IdleQr

NextService ==
    \/ \E u \in Uploads, file \in ServiceFiles, flush_ok \in BOOLEAN :
           ReceiveUpload(u, file, flush_ok)
    \/ \E u \in Uploads, ok \in BOOLEAN : EmbedChunk(u, ok)
    \/ \E u \in Uploads, ok \in BOOLEAN : StoreVectors(u, ok)
    \/ \E u \in Uploads, ok \in BOOLEAN : CommitUpload(u, ok)
    \/ \E question \in Questions, ok \in BOOLEAN : EmbedQuestion(question, ok)
    \/ /\ qr.pc = "retrieve"
       /\ \E hits \in ServiceHits(NResults), ok \in BOOLEAN :
              RetrieveChunks(RawResponse(hits, "full"), ok)
    \/ \E ok \in BOOLEAN : TryModel(ok)
    \/ AllModelsFailed

SpecService == InitService /\ [][NextService]_vars


(***************************************************************************)
(* The chunker as a function: SpecChunk draws the arguments and calls it   *)
(***************************************************************************)

MaxLen == 6
MaxTargetSize == 3
MaxOverlap == 2

InitChunk ==
    /\ ck \in [pc : {"args"}, text : TextsUpTo(Alphabet, MaxLen),
               target_size : 1..MaxTargetSize, overlap : 0..MaxOverlap,
               chunks : {<<>>}, out : {<<>>}]
    /\ store = {}
    /\ db = {}
    /\ up = [u \in Uploads |-> IdleUp]
    /\ qr = IdleQr

\* one call _chunk_text(text, target_size, overlap); chunks keeps the list
\* the function holds before its overlap pass
CallChunkText ==
    /\ ck.pc = "args"
    /\ ck' = [ck EXCEPT !.pc = "returned",
                        !.chunks = IF ck.text = <<>> THEN <<>>
                                   ELSE pre_overlap_chunks(ck.text, ck.target_size),
                        !.out = _chunk_text(ck.text, ck.target_size, ck.overlap)]
    /\ UNCHANGED <<store, db, up, qr>>

NextChunk == CallChunkText

SpecChunk == InitChunk /\ [][NextChunk]_vars

(***************************************************************************)
(* Properties of the chunker                                               *)
(***************************************************************************)

\* a chunk that is one unsplittable unit: a single word, with no whitespace
\* but at its ends
SingleUnit(c) == \A i \in 1..Len(strip(c)) : strip(c)[i] \notin Whitespace

\* s is a suffix of t
IsSuffix(s, t) == s = <<>> \/ (Len(s) <= Len(t) /\ last_chars(t, Len(s)) = s)

\* C5: for every non-empty text, target_size > 0 and overlap, every chunk of
\* the final output is at most target_size long, unless it is a single word
\* that is itself longer than target_size.
C5_ChunksWithinTargetSize ==
    (ck.pc = "returned" /\ ck.text # <<>>) =>
        \A i \in 1..Len(ck.out) :
            \/ Len(ck.out[i]) <= ck.target_size
            \/ SingleUnit(ck.out[i])

\* C6 as claimed: with overlap > 0 chunk 0 is the first pre-overlap chunk, and
\* every later chunk is a suffix (at most overlap characters) of the
\* pre-overlap text of the chunk before it, directly followed by its own
\* pre-overlap text.
C6_OverlapDirectlyFollowed ==
    (ck.pc = "returned" /\ ck.overlap > 0) =>
        /\ Len(ck.out) = Len(ck.chunks)
        /\ (Len(ck.out) > 0 => ck.out[1] = ck.chunks[1])
        /\ \A i \in 2..Len(ck.out) :
               \E n \in 0..ck.overlap :
                   /\ n <= Len(ck.out[i])
                   /\ IsSuffix(first_chars(ck.out[i], n), ck.chunks[i - 1])
                   /\ From(ck.out[i], n) = ck.chunks[i]

\* C6 amended: with overlap > 0 chunk 0 is the first pre-overlap chunk, and
\* every later chunk is a suffix (at most overlap characters) of the
\* pre-overlap text of the chunk before it, then one space, then its own
\* pre-overlap text.
C6_OverlapThenSpace ==
    (ck.pc = "returned" /\ ck.overlap > 0) =>
        /\ Len(ck.out) = Len(ck.chunks)
        /\ (Len(ck.out) > 0 => ck.out[1] = ck.chunks[1])
        /\ \A i \in 2..Len(ck.out) :
               \E n \in 0..ck.overlap :
                   /\ n < Len(ck.out[i])
                   /\ IsSuffix(first_chars(ck.out[i], n), ck.chunks[i - 1])
                   /\ ck.out[i][n + 1] = " "
                   /\ From(ck.out[i], n + 1) = ck.chunks[i]

\* a call with overlap > 0 that returned two chunks or more, the second of
\* which starts with a non-empty piece of the first
C6_Witness ==
    /\ ck.pc = "returned"
    /\ ck.overlap > 0
    /\ Len(ck.out) >= 2
    /\ Len(ck.out[2]) > Len(ck.chunks[2]) + 1

(***************************************************************************)
(* Properties of the upload endpoint                                       *)
(***************************************************************************)

\* C4: when an upload request has finished, either its document record is
\* committed and the vector index holds exactly chunk_count vectors of the
\* document, or the record is not committed and the index holds no vector
\* of the document.
C4_NoPartialIngestion ==
    \A u \in Uploads :
        up[u].pc = "done" =>
            \/ /\ Committed(u)
               /\ Cardinality(VectorsOf(u)) = up[u].doc.chunk_count
            \/ /\ ~Committed(u)
               /\ VectorsOf(u) = {}

\* C7: chunking the empty text gives no chunk, and an upload whose text is
\* empty after normalisation makes no embedding call and no insert, records
\* chunk_count = 0, and fails only if the database does.
C7_EmptyDocumentIsValid ==
    /\ \A t \in 1..MaxTargetSize, o \in 0..MaxOverlap : _chunk_text(<<>>, t, o) = <<>>
    /\ \A u \in Uploads :
           (up[u].extracted /\ up[u].text = <<>>) =>
               /\ up[u].chunks = <<>>
               /\ up[u].embed_calls = <<>>
               /\ up[u].insert_calls = 0
               /\ VectorsOf(u) = {}
               /\ up[u].error \in {"", "DatabaseError"}
               /\ up[u].doc # None => up[u].doc.chunk_count = 0
               /\ (up[u].pc = "done" /\ up[u].error = "") =>
                      /\ up[u].status = 201
                      /\ \E d \in db : d.id = u /\ d.chunk_count = 0

\* an upload of a file holding only whitespace that was answered 201
C7_Witness ==
    \E u \in Uploads :
        /\ up[u].pc = "done"
        /\ up[u].status = 201
        /\ up[u].file.text # <<>>
        /\ up[u].text = <<>>

\* C10: the embedding calls of one ingestion are made for chunks 0, 1, 2, ...
\* in that order, once each; when the call for chunk j fails the request
\* ends with the error (a 500), chunk j was the last one embedded, and
\* add_documents was never called for the document.
C10_EmbeddingSequentialNoRetry ==
    \A u \in Uploads :
        /\ up[u].embed_calls = [k \in 1..Len(up[u].embed_calls) |-> k - 1]
        /\ Len(up[u].embed_calls) <= Len(up[u].chunks)
        /\ Len(up[u].batch) <= Len(up[u].embed_calls)
        /\ Len(up[u].embed_calls) <= Len(up[u].batch) + 1
        /\ up[u].insert_calls > 0 => Len(up[u].batch) = Len(up[u].chunks)
        /\ Len(up[u].batch) < Len(up[u].embed_calls) =>
               /\ up[u].pc = "done"
               /\ up[u].error = "EmbeddingError"
               /\ up[u].status = 500
               /\ up[u].rolled_back
               /\ up[u].insert_calls = 0
               /\ VectorsOf(u) = {}
               /\ ~Committed(u)

\* an ingestion whose second embedding call failed
C10_Witness ==
    \E u \in Uploads :
        /\ up[u].error = "EmbeddingError"
        /\ up[u].embed_calls = <<0, 1>>
        /\ Len(up[u].chunks) = 3

(***************************************************************************)
(* Properties of the generation fallback chain                             *)
(***************************************************************************)

\* C1: the candidates are called in list order, one call each; when
\* candidate j is the first to succeed the answer is candidate j's output,
\* exactly the j failures of candidates 0..j-1 were recorded, and no
\* candidate after j was called.
C1_FallbackInListOrder ==
    /\ qr.gen_calls = [k \in 1..Len(qr.gen_calls) |->
                          [idx |-> k - 1, model |-> models_to_try[k]]]
    /\ Len(qr.gen_calls) <= Len(models_to_try)
    /\ qr.failures = [k \in 1..Len(qr.failures) |->
                         [idx |-> k - 1, error |-> ProviderError(models_to_try[k])]]
    /\ Len(qr.failures) <= Len(qr.gen_calls)
    /\ Len(qr.gen_calls) <= Len(qr.failures) + 1
    /\ Len(qr.gen_calls) = Len(qr.failures) + 1 =>
           /\ qr.pc = "done"
           /\ qr.status = 200
           /\ qr.answer = Completion(models_to_try[Len(qr.failures) + 1], qr.prompt)
    /\ (qr.pc = "done" /\ qr.status = 200 /\ qr.retrieved_chunks # <<>>) =>
           Len(qr.gen_calls) = Len(qr.failures) + 1

\* the first two candidates failed and the third answered
C1_Witness ==
    /\ qr.pc = "done"
    /\ Len(qr.failures) = 2
    /\ qr.answer = Completion(models_to_try[3], qr.prompt)

\* C2: when every candidate failed, each was tried exactly once, the request
\* ends with the all-models-failed error carrying the last candidate's error,
\* and no answer is returned; that error is raised in no other case.
C2_AllModelsFailedCarriesLastError ==
    LET raised == qr.error[1] = "All LLM models failed. Last error: "
    IN  /\ Len(qr.failures) = Len(models_to_try) =>
               /\ [k \in 1..Len(qr.gen_calls) |-> qr.gen_calls[k].idx]
                      = [k \in 1..Len(models_to_try) |-> k - 1]
               /\ qr.answer = NoAnswer
               /\ qr.last_error = ProviderError(models_to_try[Len(models_to_try)])
               /\ qr.pc = "done" =>
                      /\ raised
                      /\ qr.error[2] = ProviderError(models_to_try[Len(models_to_try)])
                      /\ qr.status = 500
        /\ raised =>
               /\ Len(qr.failures) = Len(models_to_try)
               /\ qr.pc = "done"

\* a request that ended with the all-models-failed error
C2_Witness ==
    /\ qr.pc = "done"
    /\ qr.error[1] = "All LLM models failed. Last error: "
    /\ Len(qr.gen_calls) = Len(models_to_try)

(***************************************************************************)
(* Properties of the query pipeline                                        *)
(***************************************************************************)

\* the index answered with no document: the key is absent, or its outer
\* list or the list of documents is empty
ZeroResults(results) ==
    \/ ~results.documents.present
    \/ results.documents.value = <<>>
    \/ results.documents.value[1] = <<>>

\* C3: when the index answered and gave no document, the request is answered
\* with the fixed "insufficient information" text and no retrieved chunk,
\* and the generation client was not called.
C3_NoResultsNoGeneration ==
    (qr.retrieved /\ ZeroResults(qr.results)) =>
        /\ qr.pc = "done"
        /\ qr.status = 200
        /\ qr.answer = CannedAnswer
        /\ qr.retrieved_chunks = <<>>
        /\ qr.gen_calls = <<>>

\* the index held vectors and still answered without the documents key
C3_Witness ==
    /\ qr.retrieved
    /\ store # {}
    /\ ~qr.results.documents.present
    /\ qr.pc = "done"

\* 1 - d clamped to [0, 1]
OneMinusClamped(d) ==
    IF LessEq(One, d) THEN Zero ELSE IF Less(d, Zero) THEN One ELSE <<d[2] - d[1], d[2]>>

\* C8: the index uses cosine distance, and the similarity reported for every
\* retrieved chunk is 1 - d clamped to [0, 1], d being the distance the index
\* returned for it (0.8 for d = 0.2): the formula of ChromaVectorStore.query.
C8_SimilarityIsOneMinusDistance ==
    /\ HnswSpace = "cosine"
    /\ \A i \in 1..Len(qr.retrieved_chunks) :
           distance_at(qr.results, i) # Inf =>
               qr.retrieved_chunks[i].similarity_score
                   = round(OneMinusClamped(distance_at(qr.results, i)), RoundDigits)

C11_OneBatchInChunkOrder ==
    \A u \in Uploads :
        (up[u].status = 201 /\ Len(up[u].chunks) >= 1) =>
            LET r == up[u]
                n == Len(r.chunks)
            IN  /\ r.insert_calls = 1
                /\ Len(r.batch) = n
                /\ r.doc.chunk_count = n
                /\ \A i \in 0..n - 1 :
                       /\ r.batch[i + 1].id = <<r.doc.id, "_", i>>
                       /\ r.batch[i + 1].metadata.chunk_index = i
                       /\ r.batch[i + 1].metadata.document_id = r.doc.id
                       /\ r.batch[i + 1].document = r.chunks[i + 1]
                       /\ r.batch[i + 1].embedding = Embedding(r.chunks[i + 1])
                /\ VectorsOf(u) = {r.batch[k] : k \in 1..n}
                /\ {v.id : v \in VectorsOf(u)} = {<<r.doc.id, "_", i>> : i \in 0..n - 1}
                /\ Cardinality(VectorsOf(u)) = n

\* a document of at least two chunks was ingested and answered 201
C11_Witness ==
    \E u \in Uploads :
        /\ up[u].status = 201
        /\ Len(up[u].chunks) >= 2
        /\ Cardinality(VectorsOf(u)) >= 2


(***************************************************************************)
(* Properties of the query answer                                          *)
(***************************************************************************)

\* the "Source/Content" block of one retrieved chunk
Block(c) == <<"Source: ">> \o c.source \o <<"\nContent: ">> \o c.text

\* the documents of the index response, [] when it has none
ItemsOf(results) == IF has_documents(results) THEN results.documents.value[1] ELSE <<>>

\* C12: when the index returned n >= 1 items, the query goes on to the
\* generation client with a prompt holding the n "Source/Content" blocks in
\* index order; the n retrieved chunks are in that order, chunk i with the
\* text of item i and its source ("unknown" when the response holds no
\* metadata for it), with or without distances; and a query answered 200
\* returns the generation client's output for that prompt.
C12_AnswerWithOrderedChunks ==
    (qr.retrieved /\ Len(ItemsOf(qr.results)) >= 1) =>
        LET items == ItemsOf(qr.results)
            metadatas == FirstOrEmpty(qr.results.metadatas)
            n == Len(items)
        IN  /\ qr.pc \in {"generate", "done"}
            /\ Len(qr.retrieved_chunks) = n
            /\ \A i \in 1..n :
                   /\ qr.retrieved_chunks[i].text = items[i]
                   /\ qr.retrieved_chunks[i].source =
                          IF i <= Len(metadatas) THEN metadatas[i].source
                          ELSE UnknownSource
            /\ qr.prompt = _build_rag_prompt(
                               join([i \in 1..n |-> Block(qr.retrieved_chunks[i])]),
                               qr.question)
            /\ (qr.pc = "done" /\ qr.status = 200) =>
                   /\ qr.gen_calls # <<>>
                   /\ qr.answer = Completion(qr.gen_calls[Len(qr.gen_calls)].model,
                                             qr.prompt)
            /\ (qr.pc = "done" /\ qr.status # 200) =>
                   /\ Len(qr.gen_calls) = Len(models_to_try)
                   /\ qr.answer = NoAnswer

\* three items came back without distances, from distinct sources, and the
\* query was answered by a fallback model
C12_Witness ==
    /\ qr.pc = "done"
    /\ qr.status = 200
    /\ ~qr.results.distances.present
    /\ Len(qr.retrieved_chunks) = 3
    /\ qr.retrieved_chunks[1].source # qr.retrieved_chunks[2].source
    /\ Len(qr.gen_calls) = 2
    /\ qr.answer = Completion(models_to_try[2], qr.prompt)


(***************************************************************************)
(* Properties of the upload endpoint's answers                             *)
(***************************************************************************)

\* the formats _extract_text has a branch for
Supported(file) ==
    \/ file.content_type = "application/pdf" \/ file.ext = "pdf"
    \/ file.content_type = DocxType \/ file.ext = "docx"
    \/ file.content_type = "text/plain" \/ file.ext = "txt"

\* C13: an upload is answered 4xx only when the file's format is
\* unsupported; a failure to decode or parse a supported file, an embedding
\* error, an index write error and a database error are answered 5xx; and
\* every failed upload has rolled the transaction back.
C13_ClientErrorOnlyForUnsupportedFormat ==
    \A u \in Uploads :
        up[u].pc = "done" =>
            /\ (up[u].status >= 400 /\ up[u].status < 500) => ~Supported(up[u].file)
            /\ up[u].error \in {"UnicodeDecodeError", "ParseError", "EmbeddingError",
                                "IndexWriteError", "DatabaseError"} =>
                   (up[u].status >= 500 /\ up[u].status < 600)
            /\ up[u].status # 201 => up[u].rolled_back


(***************************************************************************)
(* Properties of the splitting of an oversized paragraph                   *)
(***************************************************************************)

\* text is one paragraph longer than target_size with no sentence end in
\* it, made of words separated by single spaces, each word shorter than
\* target_size
OversizedParagraphOfShortWords(text, target_size) ==
    /\ Len(text) > target_size
    /\ strip(text) = text
    /\ \A i \in 1..Len(text) : text[i] \notin {"\n", "\r", "."}
    /\ LET words == split(text, <<" ">>)
       IN  \A k \in 1..Len(words) : words[k] # <<>> /\ Len(words[k]) < target_size

\* C14: a paragraph longer than target_size that is made of space-separated
\* words each shorter than target_size is split at ". " and, failing that,
\* at spaces, so that every sub-chunk produced for it is at most target_size
\* long.
C14_OversizedParagraphSplitAtSpaces ==
    (ck.pc = "returned" /\ OversizedParagraphOfShortWords(ck.text, ck.target_size)) =>
        \A k \in 1..Len(ck.chunks) : Len(ck.chunks[k]) <= ck.target_size


(***************************************************************************)
(* Properties of the order of normalisation and paragraph splitting        *)
(***************************************************************************)

\* text holds two non-empty paragraphs separated by a double newline
TwoParagraphs(text) ==
    LET paragraphs == split(text, <<"\n", "\n">>)
    IN  /\ Len(paragraphs) >= 2
        /\ strip(paragraphs[1]) # <<>>
        /\ strip(paragraphs[2]) # <<>>

\* C15: when the text of an uploaded file holds two non-empty paragraphs
\* separated by a double newline, the text process_file hands to the chunker
\* still holds that double newline, so that paragraph splitting sees the
\* boundary.
C15_ParagraphBoundarySurvives ==
    \A u \in Uploads :
        (up[u].extracted /\ TwoParagraphs(up[u].file.text)) =>
            /\ find(up[u].text, <<"\n", "\n">>) # -1
            /\ Len(split(replace_char(up[u].text, "\r", "\n"), <<"\n", "\n">>)) >= 2


(***************************************************************************)
(* Properties of the text kept by the splitting                            *)
(***************************************************************************)

\* "".join(chunks)
RECURSIVE concat(_)
concat(chunks) == IF chunks = <<>> THEN <<>> ELSE Head(chunks) \o concat(Tail(chunks))

\* c is a contiguous span of t
IsSpan(c, t) == \E i \in 0..Len(t) - Len(c) : SubSeq(t, i + 1, i + Len(c)) = c

\* text is one stripped paragraph, as normalisation leaves it
OneParagraph(text) ==
    /\ text # <<>>
    /\ strip(text) = text
    /\ \A i \in 1..Len(text) : text[i] \notin {"\n", "\r"}

\* C16: the sub-chunks split_text produces for a paragraph longer than
\* target_size, put together in order, are exactly that paragraph, and every
\* chunk before overlap is a contiguous span of the text: no separator is
\* appended that the text did not hold.
C16_SplitKeepsText ==
    (ck.pc = "returned" /\ OneParagraph(ck.text)) =>
        /\ Len(ck.text) > ck.target_size => concat(ck.chunks) = ck.text
        /\ \A k \in 1..Len(ck.chunks) : IsSpan(ck.chunks[k], ck.text)


(***************************************************************************)
(* Properties of the section labels                                        *)
(***************************************************************************)

\* the heading in the first two lines of a chunk, by the test of lines
\* 85-89: whether there is one, and its text with leading '#' removed
HeadingIn(chunk) ==
    LET lines == split(chunk, <<"\n">>)
        line1 == strip(lines[1])
        line2 == IF Len(lines) >= 2 THEN strip(lines[2]) ELSE <<>>
    IN  IF header_test(line1) = "header"
        THEN [found |-> TRUE, text |-> strip(lstrip_hash(line1))]
        ELSE IF Len(lines) >= 2 /\ header_test(line2) = "header"
        THEN [found |-> TRUE, text |-> strip(lstrip_hash(line2))]
        ELSE [found |-> FALSE, text |-> <<>>]

\* the left fold: the heading of the latest of chunks[1..n] that has one,
\* "Introduction" when none has
RECURSIVE SectionFold(_, _)
SectionFold(chunks, n) ==
    IF n = 0 THEN Introduction
    ELSE IF HeadingIn(chunks[n]).found THEN HeadingIn(chunks[n]).text
    ELSE SectionFold(chunks, n - 1)

\* C17: the section stored for chunk i of a document is the heading text of
\* the latest chunk j <= i that has a numbered, all-caps or markdown heading
\* in its first two lines, and "Introduction" when no chunk up to i has one;
\* the fold starts afresh for every document.
C17_SectionIsFoldOfHeadings ==
    \A u \in Uploads :
        \A k \in 1..Len(up[u].batch) :
            up[u].batch[k].metadata.section = SectionFold(up[u].chunks, k)


(***************************************************************************)
(* Properties of the overlap's word boundary                               *)
(***************************************************************************)

\* the number of characters of chunks[i - 1] put before chunk i in out[i]
\* (what precedes the joining space and the chunk's own text)
PrependedLen(i) == Len(ck.out[i]) - Len(ck.chunks[i]) - 1

\* C18: the text of the previous chunk put before chunk i > 0 never begins
\* in the middle of a word: it is empty, or it starts at the start of the
\* previous chunk, or the character before it in the previous chunk is
\* white space.
C18_OverlapStartsAtWordBoundary ==
    (ck.pc = "returned" /\ ck.overlap > 0 /\ Len(ck.chunks) > 1) =>
        \A i \in 2..Len(ck.out) :
            LET prev == ck.chunks[i - 1]
                start == Len(prev) - PrependedLen(i)
            IN  \/ PrependedLen(i) = 0
                \/ start = 0
                \/ prev[start] \in Whitespace


(***************************************************************************)
(* Properties of queries that run beside uploads                           *)
(***************************************************************************)

\* C19: whatever the interleaving of the upload and the query, once the
\* uploads have ended every chunk the query retrieved belongs to a document
\* whose record is committed, and the index holds all chunk_count vectors of
\* that document.
C19_RetrievedOnlyFromCommitted ==
    (qr.retrieved /\ \A u \in Uploads : up[u].pc = "done") =>
        \A i \in 1..Len(qr.retrieved_chunks) :
            LET d == FirstOrEmpty(qr.results.metadatas)[i].document_id
            IN  /\ Committed(d)
                /\ \A doc \in db :
                       doc.id = d => Cardinality(VectorsOf(d)) = doc.chunk_count


====
